---- MODULE Spec2Model ----
(***************************************************************************)
(* Browser-side layer of the candidate tracker: the interview-email job    *)
(* page (upload, start, status polling), the programs page and the         *)
(* all-candidates page (load, view, delete), and the dashboard (metrics     *)
(* load and its periodic refresh) and the program-upload form (validation   *)
(* and simulated progress).  One page is loaded at a time; its              *)
(* script's handlers are the actions.  The backend is external: every      *)
(* request in flight is settled by a response drawn from the outcomes      *)
(* fetch() can produce.                                                     *)
(*                                                                         *)
(* Spec is the five pages; TargetsSpec applies displayProgramsTable to any *)
(* payload; DashboardSpec is the dashboard with its interval firing;       *)
(* ProgramsHistorySpec is the programs page with the history of view and   *)
(* delete calls recorded; UploadSpec is the program-upload form with its    *)
(* interval firing.                                                         *)
(***************************************************************************)
EXTENDS Integers, Sequences, FiniteSets, Bags, TLC

\* ------------------------------------------------------------------ bounds
\* User actions (clicks, submits) taken in one page visit.
MaxClicks == 3
\* Status polls issued from a poll timer in one page visit.
MaxPolls == 2
\* Rows of a list payload.
MaxRows == 2
\* Largest total / processed count of a status payload.
MaxTotal == 3
\* Ticks of the dashboard's refresh interval in one page visit.
MaxTicks == 2

\* --------------------------------------------------------------- constants
\* setTimeout delay after a poll response with finished = false.
SuccessInterval == 1500
\* setTimeout delay after a poll that threw.
FailureInterval == 3000

\* Percentages are kept in tenths of a percent: 69.9 is 699.
\* femaleMet = program.female_percent >= 70
FemaleTarget == 700
\* pwdMet = program.pwd_percent >= 5
PwdTarget == 50

\* Dashboard card thresholds, in tenths of a percent.
\* data.female_percent >= 65 / >= 60
FemaleGood == 650
FemaleWarning == 600
\* data.pwd_percent >= 5 / >= 3.5
PwdGood == 50
PwdWarning == 35
\* data.total_percent >= 100
TotalDone == 1000

\* progress += 5
ProgressStep == 5
\* Math.min(progress, 95) and progress >= 95
ProgressCap == 95

Pages == {"emails", "programs", "candidates", "dashboard", "upload"}

\* currentJobId = null
NoJob == "null"
JobIds == {"job1", "job2"}

\* payload.error / data.error / data.message absent
NoText == "undefined"
ErrTexts == {"bad request"}
MsgTexts == {"program deleted"}

\* filterDecision.value: "" is the "all decisions" option
FilterValues == {"", "Accepted"}

Programs == {"Alpha", "Beta"}
CandidateIds == {"123", "456"}
NoProgram == ""

\* ---------------------------------------------------------------- requests
\* A request in flight: the endpoint and the body or URL parameters.
Request(api, job, send, previewOnly, filter, cand, prog) ==
    [api |-> api, job |-> job, send |-> send, preview_only |-> previewOnly,
     filter_decisions |-> filter, candidate_id |-> cand, program |-> prog]

UploadRequest == Request("upload", NoJob, FALSE, FALSE, <<>>, "", NoProgram)

\* body = { job_id, send: !previewOnly, preview_only: previewOnly },
\* filter_decisions = [filterVal] only when filterVal is truthy; a body
\* without filter_decisions is kept as the empty list.
StartRequestAlwaysSends(jobId, previewOnly, filterVal) ==
    Request("start", jobId, TRUE, previewOnly,
            IF filterVal # "" THEN <<filterVal>> ELSE <<>>, "", NoProgram)

StartRequest(jobId, previewOnly, filterVal) ==
    Request("start", jobId, ~previewOnly, previewOnly,
            IF filterVal # "" THEN <<filterVal>> ELSE <<>>, "", NoProgram)

StatusRequest(jobId) == Request("status", jobId, FALSE, FALSE, <<>>, "", NoProgram)

ProgramsRequest == Request("programs", NoJob, FALSE, FALSE, <<>>, "", NoProgram)

ProgramRequest(name) == Request("program", NoJob, FALSE, FALSE, <<>>, "", name)

CandidatesRequest == Request("candidates", NoJob, FALSE, FALSE, <<>>, "", NoProgram)

DeleteCandidateRequest(candidateId, program) ==
    Request("deleteCandidate", NoJob, FALSE, FALSE, <<>>, candidateId, program)

DeleteProgramRequest(name) ==
    Request("deleteProgram", NoJob, FALSE, FALSE, <<>>, "", name)

MetricsRequest == Request("metrics", NoJob, FALSE, FALSE, <<>>, "", NoProgram)

\* --------------------------------------------------------------- responses
\* How a request settles:
\*   neterr   fetch() rejects (network unreachable)
\*   badbody  a response arrives whose body is not JSON: handlers that test
\*            response.ok first throw there when the status is an error, the
\*            others (and all of them on a 2xx) reject in response.json()
\*   httperr  a non-OK status with a JSON body
\*   ok       a 2xx status with a JSON body
\* A numeric field the payload does not carry (undefined).
Absent == -1

Response(kind, job, finished, success, text, rows) ==
    [kind |-> kind, job_id |-> job, finished |-> finished, success |-> success,
     text |-> text, rows |-> rows, total |-> Absent, processed |-> Absent]

NetErr == Response("neterr", NoJob, FALSE, FALSE, NoText, <<>>)
BadBody == Response("badbody", NoJob, FALSE, FALSE, NoText, <<>>)
HttpErr(text) == Response("httperr", NoJob, FALSE, FALSE, text, <<>>)

TransportFailures == {NetErr, BadBody}

\* err.message of the exception the handler catches
ErrMessage(r) == IF r.kind = "neterr" THEN "Failed to fetch" ELSE "Unexpected token"

UploadResponses ==
    TransportFailures
    \cup {HttpErr(t) : t \in ErrTexts \cup {NoText}}
    \cup {Response("ok", j, FALSE, FALSE, NoText, <<>>) : j \in JobIds}

StartResponses == UploadResponses

\* { finished, total?, processed?, rows? }: the counts tried are a total that
\* is missing, 0 or MaxTotal, and of MaxTotal a missing processed and each of
\* 1..MaxTotal.
Progress ==
    {<<Absent, MaxTotal>>, <<0, MaxTotal>>, <<MaxTotal, Absent>>}
    \cup {<<MaxTotal, processed>> : processed \in 1..MaxTotal}
StatusPayload(finished, total, processed) ==
    [Response("ok", NoJob, finished, FALSE, NoText, <<>>)
        EXCEPT !.total = total, !.processed = processed]

StatusResponses ==
    TransportFailures
    \cup {HttpErr(t) : t \in ErrTexts}
    \cup {StatusPayload(f, c[1], c[2]) : f \in BOOLEAN, c \in Progress}

\* List payloads: up to MaxRows rows, no row twice.
Lists(S) ==
    {l \in UNION {[1..n -> S] : n \in 0..MaxRows} :
        \A i, j \in DOMAIN l : i # j => l[i] # l[j]}

\* A candidate row as the tables keep it: the data-id and data-program
\* attributes of its delete button.
Row(candidateId, program) == [id |-> candidateId, program |-> program]

ListResponses(S) ==
    TransportFailures
    \cup {HttpErr(NoText)}
    \cup {Response("ok", NoJob, FALSE, FALSE, NoText, l) : l \in Lists(S)}

ProgramsResponses == ListResponses(Programs)

\* A program record of the /api/programs payload, as displayProgramsTable
\* reads it.
ProgramRecord(name, femalePercent, pwdPercent) ==
    [name |-> name, female_percent |-> femalePercent, pwd_percent |-> pwdPercent]

\* The record the backend holds for a program named by a payload of
\* ProgramsResponses: one at a female target just met, one just missed.
ProgramStats(name) ==
    IF name = "Alpha" THEN ProgramRecord(name, 700, 49)
                      ELSE ProgramRecord(name, 699, 50)

\* Payloads for displayProgramsTable alone: every program at, just below and
\* far from each target.
FemalePercents == {0, 699, 700, 1000}
PwdPercents == {0, 49, 50, 1000}
ProgramLists ==
    UNION {{[i \in DOMAIN names |-> ProgramRecord(names[i], st[i][1], st[i][2])] :
              st \in [DOMAIN names -> FemalePercents \X PwdPercents]} :
           names \in Lists(Programs)}
ProgramResponses == ListResponses(CandidateIds)
\* The program a candidate record of /api/candidates names.
ProgramOf(c) == IF c = "123" THEN "Alpha" ELSE "Beta"
CandidatesResponses == ListResponses({Row(c, ProgramOf(c)) : c \in CandidateIds})

\* The /api/dashboard/metrics payload as loadDashboardData reads it;
\* raceGender says whether it carries race_gender_counts and
\* race_gender_targets.
MetricsPayload(totalCandidates, totalPercent, femalePercent, pwdPercent, raceGender) ==
    [kind |-> "ok", total_candidates |-> totalCandidates,
     total_percent |-> totalPercent, female_percent |-> femalePercent,
     pwd_percent |-> pwdPercent, race_gender |-> raceGender]

MetricsResponses ==
    TransportFailures
    \cup {HttpErr(NoText)}
    \cup {MetricsPayload(n, t, f, p, g) :
             n \in {0, 10}, t \in {999, 1000}, f \in {599, 600, 649, 650},
             p \in {34, 35, 50}, g \in BOOLEAN}

\* { success, message?, error? }
DeleteResponses ==
    TransportFailures
    \cup {HttpErr(NoText)}
    \cup {Response("ok", NoJob, FALSE, TRUE, t, <<>>) : t \in MsgTexts \cup {NoText}}
    \cup {Response("ok", NoJob, FALSE, FALSE, t, <<>>) : t \in ErrTexts \cup {NoText}}

\* ------------------------------------------------------------------- state
VARIABLES
    page,                   \* which page's script is loaded
    net,                    \* bag of requests in flight
    timers,                 \* bag of pending setTimeout callbacks
    alerts,                 \* the alert() calls so far: how many, and the latest text
    clicks,                 \* user actions taken
    polls,                  \* status polls issued from a timer
    \* interview-email page
    currentJobId,
    fileChosen,             \* fileInput.files is non-empty
    filterDecision,         \* filterDecision.value
    uploadBtnDisabled,
    generateBtnDisabled,
    previewOnlyBtnDisabled,
    previewCardShown,
    statusCardShown,
    overallProgress,        \* percent of #overallProgress (width and text)
    \* programs page
    programsLoading,        \* #programs-loading is displayed
    programsContent,        \* #programs-content is displayed
    noProgramsMessage,      \* #no-programs-message is displayed
    programsTableBody,      \* rows of #programsTableBody: program names
    programsTargets,        \* per row, the percent cells and the targets-met cell
    programDetailsSection,  \* #program-details-section is displayed
    selectedProgramName,    \* text of #selected-program-name
    programCandidatesTableBody,
    \* all-candidates page
    candidatesLoading,
    candidatesContent,
    noCandidatesMessage,
    candidatesTableBody,
    \* confirmation modal of both pages
    modalShown,
    confirmDeleteButton,    \* its data-id and data-program attributes
    \* dashboard page
    ticks,                  \* ticks of the refresh interval so far
    refreshInterval,        \* the setInterval of the page load is registered
    dashboardLoading,       \* #dashboard-loading is displayed
    dashboardContent,       \* #dashboard-content is displayed
    noDataMessage,          \* #no-data-message is displayed
    totalCount,             \* text of #total-count
    totalProgress,          \* class list of #total-progress
    femaleCard,             \* class list of #female-card
    femaleProgress,         \* class list of #female-progress
    pwdCard,                \* class list of #pwd-card
    pwdProgress,            \* class list of #pwd-progress
    raceTargets,            \* content of #race-targets-container
    charts,                 \* the chart handles that hold a chart
    chartsConstructed,      \* new Chart(...) calls so far
    chartUpdates,           \* chart.update() calls so far
    \* program-upload form
    programNameValue,       \* programNameInput.value, as its characters
    programNameInvalid,     \* programNameInput carries is-invalid
    programFiles,           \* programFileInput.files: the names of the files
    programFileInvalid,     \* programFileInput carries is-invalid
    fileLabel,              \* text of the element after the file input
    lastSubmit,             \* what became of the latest submit event
    uploadButtonDisabled,
    uploadProgressShown,    \* #uploadProgress is displayed
    progressBarWidth,       \* width of its .progress-bar, in percent
    progress,               \* the submit handler's progress
    uploadInterval,         \* the submit handler's setInterval is registered
    uploadTicks,            \* ticks of that interval so far
    \* history of the programs page: no handler reads it, and only
    \* ProgramsHistorySpec records it
    latestView,             \* the program of the latest loadProgramCandidates call,
                            \* and whether a response to a request for it was shown
    deletedProgram          \* the program whose deletion last succeeded, until the
                            \* user next clicks a view button

emailVars == <<currentJobId, fileChosen, filterDecision, uploadBtnDisabled,
               generateBtnDisabled, previewOnlyBtnDisabled, previewCardShown,
               statusCardShown, overallProgress>>

programsVars == <<programsLoading, programsContent, noProgramsMessage,
                  programsTableBody, programsTargets, programDetailsSection,
                  selectedProgramName, programCandidatesTableBody>>

candidatesVars == <<candidatesLoading, candidatesContent, noCandidatesMessage,
                    candidatesTableBody>>

modalVars == <<modalShown, confirmDeleteButton>>

cardVars == <<totalCount, totalProgress, femaleCard, femaleProgress, pwdCard,
              pwdProgress, raceTargets>>

chartVars == <<charts, chartsConstructed, chartUpdates>>

dashboardVars == <<ticks, refreshInterval, dashboardLoading, dashboardContent,
                   noDataMessage, cardVars, chartVars>>

historyVars == <<latestView, deletedProgram>>

fieldVars == <<programNameValue, programNameInvalid, programFiles,
               programFileInvalid, fileLabel>>

simulationVars == <<uploadButtonDisabled, uploadProgressShown, progressBarWidth,
                    progress, uploadInterval, uploadTicks>>

uploadVars == <<fieldVars, lastSubmit, simulationVars>>

vars == <<page, net, timers, alerts, clicks, polls, emailVars, programsVars,
          candidatesVars, modalVars, dashboardVars, historyVars, uploadVars>>

\* ----------------------------------------------------------------- helpers
\* alert(text): the user sees one alert at a time; the page keeps none.
NoAlerts == [n |-> 0, last |-> ""]
Alert(log, text) == [n |-> log.n + 1, last |-> text]

\* fetch(url, options): one request goes out.
SendTwice(req) == net (+) SetToBag({req}) (+) SetToBag({req})
Send(req) == net (+) SetToBag({req})
Settled(req) == net (-) SetToBag({req})
InFlight(api) == {req \in BagToSet(net) : req.api = api}

PollTimer(jobId, delay) == [job |-> jobId, delay |-> delay]

\* ------------------------------------------------- interview-email page
EmailInit ==
    /\ currentJobId = NoJob
    /\ fileChosen = FALSE
    /\ filterDecision = ""
    /\ uploadBtnDisabled = FALSE
    /\ generateBtnDisabled = FALSE
    /\ previewOnlyBtnDisabled = FALSE
    /\ previewCardShown = FALSE
    /\ statusCardShown = FALSE
    /\ overallProgress = 0

\* The user picks or clears the file of the file input.
ChooseFile(chosen) ==
    /\ page = "emails"
    /\ fileChosen # chosen
    /\ fileChosen' = chosen
    /\ UNCHANGED <<page, uploadVars, dashboardVars, historyVars, net, timers, alerts, clicks, polls, currentJobId,
                   filterDecision, uploadBtnDisabled, generateBtnDisabled,
                   previewOnlyBtnDisabled, previewCardShown, statusCardShown,
                   overallProgress, programsVars, candidatesVars, modalVars>>

\* The user picks an option of the decision filter.
SelectFilter(v) ==
    /\ page = "emails"
    /\ filterDecision # v
    /\ filterDecision' = v
    /\ UNCHANGED <<page, uploadVars, dashboardVars, historyVars, net, timers, alerts, clicks, polls, currentJobId,
                   fileChosen, uploadBtnDisabled, generateBtnDisabled,
                   previewOnlyBtnDisabled, previewCardShown, statusCardShown,
                   overallProgress, programsVars, candidatesVars, modalVars>>

\* uploadForm submit, up to the await of fetch().
SubmitUpload ==
    /\ page = "emails"
    /\ clicks < MaxClicks
    /\ ~uploadBtnDisabled
    /\ clicks' = clicks + 1
    /\ IF ~fileChosen
         THEN /\ alerts' = Alert(alerts, "Choose a CSV file first")
              /\ UNCHANGED <<net, uploadBtnDisabled>>
         ELSE /\ uploadBtnDisabled' = TRUE
              /\ net' = Send(UploadRequest)
              /\ UNCHANGED alerts
    /\ UNCHANGED <<page, uploadVars, dashboardVars, historyVars, timers, polls, currentJobId, fileChosen, filterDecision,
                   generateBtnDisabled, previewOnlyBtnDisabled, previewCardShown,
                   statusCardShown,
                   overallProgress, programsVars, candidatesVars, modalVars>>

\* uploadForm submit, from the await to the end of the finally block:
\* everything but the alert.
UploadEffect(req, r) ==
    /\ page = "emails"
    /\ req \in InFlight("upload")
    /\ r \in UploadResponses
    /\ net' = Settled(req)
    /\ uploadBtnDisabled' = FALSE
    /\ IF r.kind = "ok"
         THEN /\ previewCardShown' = TRUE
              /\ currentJobId' = r.job_id
         ELSE UNCHANGED <<previewCardShown, currentJobId>>
    /\ UNCHANGED <<page, uploadVars, dashboardVars, historyVars, timers, clicks, polls, fileChosen, filterDecision,
                   generateBtnDisabled, previewOnlyBtnDisabled, statusCardShown,
                   overallProgress, programsVars, candidatesVars, modalVars>>

\* The alerts of the upload handler after its response.
UploadAlerts(r) ==
    CASE r.kind = "ok" -> alerts
      [] r.kind = "httperr" ->
           Alert(alerts, IF r.text # NoText THEN r.text ELSE "Upload failed")
      [] OTHER -> Alert(alerts, "Upload failed: " \o ErrMessage(r))

UploadSettle(req, r) ==
    /\ UploadEffect(req, r)
    /\ alerts' = UploadAlerts(r)

\* The first line of startJob: a start needs a job id.
HasJob == currentJobId # NoJob

\* generateBtn.disabled and previewOnlyBtn.disabled as startJob sets them
\* before its fetch().
StartLeavesEnabled == FALSE
StartDisables == TRUE

\* generateBtn / previewOnlyBtn click: startJob up to the await of fetch().
ClickStart(previewOnly) ==
    /\ page = "emails"
    /\ clicks < MaxClicks
    /\ IF previewOnly THEN ~previewOnlyBtnDisabled ELSE ~generateBtnDisabled
    /\ clicks' = clicks + 1
    /\ IF ~HasJob
         THEN /\ alerts' = Alert(alerts, "No job to start. Upload CSV first.")
              /\ UNCHANGED <<net, generateBtnDisabled, previewOnlyBtnDisabled>>
         ELSE /\ generateBtnDisabled' = StartDisables
              /\ previewOnlyBtnDisabled' = StartDisables
              /\ net' = Send(StartRequest(currentJobId, previewOnly, filterDecision))
              /\ UNCHANGED alerts
    /\ UNCHANGED <<page, uploadVars, dashboardVars, historyVars, timers, polls, currentJobId, fileChosen, filterDecision,
                   uploadBtnDisabled, previewCardShown, statusCardShown,
                   overallProgress, programsVars, candidatesVars, modalVars>>

\* The job id pollStatus is first called with after a start response.
FirstPollJobFromRequest(req, r) == req.job
FirstPollJob(req, r) == r.job_id

\* startJob from the await on, everything but the alert; a successful start
\* calls pollStatus, which issues the first status request before it yields.
StartEffect(req, r) ==
    /\ page = "emails"
    /\ req \in InFlight("start")
    /\ r \in StartResponses
    /\ IF r.kind = "ok"
         THEN /\ statusCardShown' = TRUE
              /\ net' = Settled(req) (+) SetToBag({StatusRequest(FirstPollJob(req, r))})
         ELSE /\ net' = Settled(req)
              /\ UNCHANGED statusCardShown
    /\ UNCHANGED <<page, uploadVars, dashboardVars, historyVars, timers, clicks, polls, currentJobId, fileChosen,
                   filterDecision, uploadBtnDisabled, generateBtnDisabled,
                   previewOnlyBtnDisabled, previewCardShown,
                   overallProgress, programsVars, candidatesVars, modalVars>>

\* The alerts of startJob after its response.
StartAlerts(r) ==
    CASE r.kind = "ok" -> alerts
      [] r.kind = "httperr" ->
           Alert(alerts, IF r.text # NoText THEN r.text ELSE "Failed to start job")
      [] OTHER -> Alert(alerts, "Failed to start job: " \o ErrMessage(r))

StartSettle(req, r) ==
    /\ StartEffect(req, r)
    /\ alerts' = StartAlerts(r)

JobFinishedAlert == "Job finished. Review the status table and download logs if needed."

\* The setTimeout calls of pollStatus(jobId) once its response is handled.
PollTimersSameDelay(jobId, r) ==
    IF (r.kind = "ok" /\ r.finished) \/ r.kind = "httperr"
      THEN EmptyBag
      ELSE SetToBag({PollTimer(jobId, SuccessInterval)})

PollTimersNoElse(jobId, r) ==
    CASE r.kind = "httperr" -> EmptyBag
      [] r.kind = "ok" -> SetToBag({PollTimer(jobId, SuccessInterval)})
      [] OTHER -> SetToBag({PollTimer(jobId, FailureInterval)})

PollTimers(jobId, r) ==
    CASE r.kind = "httperr" -> EmptyBag
      [] r.kind = "ok" /\ ~r.finished -> SetToBag({PollTimer(jobId, SuccessInterval)})
      [] r.kind = "ok" /\ r.finished -> EmptyBag
      [] OTHER -> SetToBag({PollTimer(jobId, FailureInterval)})

\* payload.total || 0
OrZero(x) == IF x = Absent THEN 0 ELSE x

\* Math.round(num / den) for num >= 0 and den > 0: halves round up.
RoundDown(num, den) == num \div den
Round(num, den) == (2 * num + den) \div (2 * den)

\* percent = total ? Math.round((processed / total) * 100) : 0
Percent(total, processed) ==
    IF OrZero(total) = 0 THEN 0 ELSE Round(OrZero(processed) * 100, OrZero(total))

\* pollStatus from the await on, everything but the alert.
PollEffect(req, r) ==
    /\ page = "emails"
    /\ req \in InFlight("status")
    /\ r \in StatusResponses
    /\ net' = Settled(req)
    /\ timers' = timers (+) PollTimers(req.job, r)
    /\ overallProgress' =
           IF r.kind = "ok" THEN Percent(r.total, r.processed) ELSE overallProgress
    /\ IF r.kind = "ok" /\ r.finished
         THEN /\ generateBtnDisabled' = FALSE
              /\ previewOnlyBtnDisabled' = FALSE
         ELSE UNCHANGED <<generateBtnDisabled, previewOnlyBtnDisabled>>
    /\ UNCHANGED <<page, uploadVars, dashboardVars, historyVars, clicks, polls, currentJobId, fileChosen, filterDecision,
                   uploadBtnDisabled, previewCardShown, statusCardShown,
                   programsVars, candidatesVars, modalVars>>

\* The alerts of pollStatus after its response.
PollAlerts(r) ==
    IF r.kind = "ok" /\ r.finished THEN Alert(alerts, JobFinishedAlert) ELSE alerts

PollSettle(req, r) ==
    /\ PollEffect(req, r)
    /\ alerts' = PollAlerts(r)

\* A poll timer expires: pollStatus(jobId) runs up to the await of fetch().
PollTimerFires(t) ==
    /\ page = "emails"
    /\ polls < MaxPolls
    /\ t \in BagToSet(timers)
    /\ timers' = timers (-) SetToBag({t})
    /\ net' = Send(StatusRequest(t.job))
    /\ polls' = polls + 1
    /\ UNCHANGED <<page, uploadVars, dashboardVars, historyVars, alerts, clicks, emailVars, programsVars, candidatesVars, modalVars>>

EmailNext ==
    \/ \E chosen \in BOOLEAN : ChooseFile(chosen)
    \/ \E v \in FilterValues : SelectFilter(v)
    \/ SubmitUpload
    \/ \E req \in BagToSet(net), r \in UploadResponses : UploadSettle(req, r)
    \/ \E previewOnly \in BOOLEAN : ClickStart(previewOnly)
    \/ \E req \in BagToSet(net), r \in StartResponses : StartSettle(req, r)
    \/ \E req \in BagToSet(net), r \in StatusResponses : PollSettle(req, r)
    \/ \E t \in BagToSet(timers) : PollTimerFires(t)

\* ------------------------------------------- confirmation modal (both pages)
ModalInit ==
    /\ modalShown = FALSE
    /\ confirmDeleteButton = Row("", NoProgram)

Range(l) == {l[i] : i \in DOMAIN l}

\* A delete-candidate button's click handler: show the modal and copy the
\* button's data attributes to the confirm button.
ShowModal(row) ==
    /\ modalShown' = TRUE
    /\ confirmDeleteButton' = Row(row.id, row.program)

\* The request deleteCandidate sends for the confirm button's attributes.
ConfirmedRequestSwapped == DeleteCandidateRequest(confirmDeleteButton.program, confirmDeleteButton.id)
ConfirmedRequest == DeleteCandidateRequest(confirmDeleteButton.id, confirmDeleteButton.program)

\* confirmDeleteButton click: deleteCandidate up to its fetch(), then hide the modal.
ConfirmDelete ==
    /\ page \in {"programs", "candidates"}
    /\ modalShown
    /\ net' = Send(ConfirmedRequest)
    /\ modalShown' = FALSE
    /\ UNCHANGED <<page, uploadVars, dashboardVars, historyVars, timers, alerts, clicks, polls, emailVars, programsVars,
                   candidatesVars, confirmDeleteButton>>

\* What dismissing the modal (cancel, close, Esc) sends: nothing.
DismissSendsAnyway == Send(ConfirmedRequest)
DismissSends == net

\* The user dismisses the modal without confirming.
DismissModal ==
    /\ page \in {"programs", "candidates"}
    /\ modalShown
    /\ modalShown' = FALSE
    /\ net' = DismissSends
    /\ UNCHANGED <<page, uploadVars, dashboardVars, historyVars, timers, alerts, clicks, polls, emailVars, programsVars,
                   candidatesVars, confirmDeleteButton>>

\* ------------------------------------------------------------ programs page
View(name, done) == [program |-> name, done |-> done]

HistoryInit ==
    /\ latestView = View(NoProgram, FALSE)
    /\ deletedProgram = NoProgram

ProgramsInit ==
    /\ programsLoading = TRUE
    /\ programsContent = FALSE
    /\ noProgramsMessage = FALSE
    /\ programsTableBody = <<>>
    /\ programsTargets = <<>>
    /\ programDetailsSection = FALSE
    /\ selectedProgramName = NoProgram
    /\ programCandidatesTableBody = <<>>

\* The target tests of displayProgramsTable.
FemaleMetStrict(program) == program.female_percent > FemaleTarget
FemaleMet(program) == program.female_percent >= FemaleTarget
PwdMet(program) == program.pwd_percent >= PwdTarget

\* The percent cells and the targets-met cell of a program's row.
TargetCells(program) ==
    [female_percent |-> program.female_percent,
     pwd_percent |-> program.pwd_percent,
     female |-> IF FemaleMet(program) THEN "Met" ELSE "Not Met",
     pwd |-> IF PwdMet(program) THEN "Met" ELSE "Not Met"]

\* displayProgramsTable(programs): the table body is emptied and gets one row
\* per program.
DisplayProgramsTable(programs) ==
    /\ programsTableBody' = [i \in DOMAIN programs |-> programs[i].name]
    /\ programsTargets' = [i \in DOMAIN programs |-> TargetCells(programs[i])]

\* The .then(data => ...) and .catch of loadProgramsData.
ProgramsSettle(req, r) ==
    /\ page = "programs"
    /\ req \in InFlight("programs")
    /\ r \in ProgramsResponses
    /\ net' = Settled(req)
    /\ programsLoading' = FALSE
    /\ programsContent' = TRUE
    /\ IF r.kind = "ok" /\ Len(r.rows) # 0
         THEN /\ noProgramsMessage' = FALSE
              /\ DisplayProgramsTable([i \in DOMAIN r.rows |-> ProgramStats(r.rows[i])])
         ELSE /\ noProgramsMessage' = TRUE
              /\ UNCHANGED <<programsTableBody, programsTargets>>
    /\ UNCHANGED <<page, uploadVars, dashboardVars, historyVars, timers, alerts, clicks, polls, emailVars,
                   programDetailsSection, selectedProgramName,
                   programCandidatesTableBody, candidatesVars, modalVars>>

\* A view-program button is clicked: loadProgramCandidates up to its fetch().
ClickViewProgram(name) ==
    /\ page = "programs"
    /\ clicks < MaxClicks
    /\ programsContent /\ ~modalShown
    /\ name \in Range(programsTableBody)
    /\ clicks' = clicks + 1
    /\ programDetailsSection' = FALSE
    /\ programsLoading' = TRUE
    /\ net' = Send(ProgramRequest(name))
    /\ UNCHANGED <<page, uploadVars, dashboardVars, timers, alerts, polls, emailVars, programsContent,
                   noProgramsMessage, programsTableBody, programsTargets, selectedProgramName,
                   programCandidatesTableBody, candidatesVars, modalVars>>

\* The .then(candidates => ...) and .catch of loadProgramCandidates, without
\* the alert; displayProgramCandidates makes one row per candidate, each
\* delete button carrying the program name of the request.
ProgramEffect(req, r) ==
    /\ page = "programs"
    /\ req \in InFlight("program")
    /\ r \in ProgramResponses
    /\ net' = Settled(req)
    /\ programsLoading' = FALSE
    /\ IF r.kind = "ok"
         THEN /\ programDetailsSection' = TRUE
              /\ selectedProgramName' = req.program
              /\ programCandidatesTableBody' =
                     [i \in DOMAIN r.rows |-> Row(r.rows[i], req.program)]
         ELSE UNCHANGED <<programDetailsSection, selectedProgramName,
                          programCandidatesTableBody>>
    /\ UNCHANGED <<page, uploadVars, dashboardVars, timers, clicks, polls, emailVars, programsContent,
                   noProgramsMessage, programsTableBody, programsTargets, candidatesVars, modalVars>>

ProgramAlerts(req, r) ==
    IF r.kind = "ok" THEN alerts
    ELSE Alert(alerts, "Error loading candidates for " \o req.program \o ". Please try again.")

ProgramSettle(req, r) ==
    /\ ProgramEffect(req, r)
    /\ alerts' = ProgramAlerts(req, r)

\* A delete-candidate button of the program's candidates table is clicked.
ClickDeleteProgramCandidate(row) ==
    /\ page = "programs"
    /\ clicks < MaxClicks
    /\ programDetailsSection /\ ~modalShown
    /\ row \in Range(programCandidatesTableBody)
    /\ clicks' = clicks + 1
    /\ ShowModal(row)
    /\ UNCHANGED <<page, uploadVars, dashboardVars, historyVars, net, timers, alerts, polls, emailVars, programsVars,
                   candidatesVars>>

\* The requests deleteCandidate (programs page) sends after its response:
\* loadProgramCandidates(program) and loadProgramsData() on success.
DeleteCandidateReloadsOnFailureToo(req, r) ==
    SetToBag({ProgramRequest(req.program), ProgramsRequest})

DeleteCandidateReloads(req, r) ==
    IF r.kind = "ok" /\ r.success
      THEN SetToBag({ProgramRequest(req.program), ProgramsRequest})
      ELSE EmptyBag

\* deleteCandidate (programs page) after its response, without the alert.
DeleteCandidateEffect(req, r) ==
    /\ page = "programs"
    /\ req \in InFlight("deleteCandidate")
    /\ r \in DeleteResponses
    /\ net' = Settled(req) (+) DeleteCandidateReloads(req, r)
    /\ IF r.kind = "ok" /\ r.success
         THEN /\ programDetailsSection' = FALSE
              /\ programsLoading' = TRUE
         ELSE UNCHANGED <<programDetailsSection, programsLoading>>
    /\ UNCHANGED <<page, uploadVars, dashboardVars, timers, clicks, polls, emailVars, programsContent,
                   noProgramsMessage, programsTableBody, programsTargets, selectedProgramName,
                   programCandidatesTableBody, candidatesVars, modalVars>>

\* The alerts of deleteCandidate (either page) after its response.
DeleteCandidateAlerts(r) ==
    CASE r.kind = "ok" /\ r.success -> alerts
      [] r.kind = "ok" /\ ~r.success -> Alert(alerts, "Error: " \o r.text)
      [] OTHER -> Alert(alerts, "Error deleting candidate. Please try again.")

DeleteCandidateSettle(req, r) ==
    /\ DeleteCandidateEffect(req, r)
    /\ alerts' = DeleteCandidateAlerts(r)

\* A delete-program button is clicked and the confirm() dialog answered.
ClickDeleteProgram(name, confirmed) ==
    /\ page = "programs"
    /\ clicks < MaxClicks
    /\ programsContent /\ ~modalShown
    /\ name \in Range(programsTableBody)
    /\ clicks' = clicks + 1
    /\ net' = IF confirmed THEN Send(DeleteProgramRequest(name)) ELSE net
    /\ UNCHANGED <<page, uploadVars, dashboardVars, historyVars, timers, alerts, polls, emailVars, programsVars,
                   candidatesVars, modalVars>>

\* Whether deleteProgram hides the program-detail section on success.
HidesDetailsAlways(req) == TRUE
HidesDetails(req) == selectedProgramName = req.program

\* deleteProgram after its response, without the alert.
DeleteProgramEffect(req, r) ==
    /\ page = "programs"
    /\ req \in InFlight("deleteProgram")
    /\ r \in DeleteResponses
    /\ IF r.kind = "ok" /\ r.success
         THEN /\ net' = Settled(req) (+) SetToBag({ProgramsRequest})
              /\ programDetailsSection' =
                     IF HidesDetails(req) THEN FALSE ELSE programDetailsSection
         ELSE /\ net' = Settled(req)
              /\ UNCHANGED programDetailsSection
    /\ UNCHANGED <<page, uploadVars, dashboardVars, timers, clicks, polls, emailVars, programsLoading,
                   programsContent, noProgramsMessage, programsTableBody, programsTargets,
                   selectedProgramName, programCandidatesTableBody,
                   candidatesVars, modalVars>>

DeleteProgramAlerts(r) ==
    CASE r.kind = "ok" /\ r.success -> Alert(alerts, r.text)
      [] r.kind = "ok" /\ ~r.success -> Alert(alerts, "Error: " \o r.text)
      [] OTHER -> Alert(alerts, "Error deleting program. Please try again.")

DeleteProgramSettle(req, r) ==
    /\ DeleteProgramEffect(req, r)
    /\ alerts' = DeleteProgramAlerts(r)

\* The handlers that call loadProgramCandidates or deleteProgram leave the
\* history variables open; here they are not recorded.
ProgramsNext ==
    \/ \E req \in BagToSet(net), r \in ProgramsResponses : ProgramsSettle(req, r)
    \/ \E name \in Programs : ClickViewProgram(name) /\ UNCHANGED historyVars
    \/ \E req \in BagToSet(net), r \in ProgramResponses :
          ProgramSettle(req, r) /\ UNCHANGED historyVars
    \/ \E row \in Range(programCandidatesTableBody) : ClickDeleteProgramCandidate(row)
    \/ \E req \in BagToSet(net), r \in DeleteResponses :
          DeleteCandidateSettle(req, r) /\ UNCHANGED historyVars
    \/ \E name \in Programs, confirmed \in BOOLEAN : ClickDeleteProgram(name, confirmed)
    \/ \E req \in BagToSet(net), r \in DeleteResponses :
          DeleteProgramSettle(req, r) /\ UNCHANGED historyVars

\* The same handlers with the history recorded.
ViewRecorded(name) ==
    /\ ClickViewProgram(name)
    /\ latestView' = View(name, FALSE)
    /\ deletedProgram' = NoProgram

ProgramSettleRecorded(req, r) ==
    /\ ProgramSettle(req, r)
    /\ latestView' = IF r.kind = "ok" /\ req.program = latestView.program
                       THEN View(req.program, TRUE) ELSE latestView
    /\ UNCHANGED deletedProgram

DeleteCandidateSettleRecorded(req, r) ==
    /\ DeleteCandidateSettle(req, r)
    /\ latestView' = IF r.kind = "ok" /\ r.success
                       THEN View(req.program, FALSE) ELSE latestView
    /\ UNCHANGED deletedProgram

DeleteProgramSettleRecorded(req, r) ==
    /\ DeleteProgramSettle(req, r)
    /\ deletedProgram' = IF r.kind = "ok" /\ r.success THEN req.program
                                                          ELSE deletedProgram
    /\ UNCHANGED latestView

ProgramsHistoryNext ==
    \/ \E req \in BagToSet(net), r \in ProgramsResponses : ProgramsSettle(req, r)
    \/ \E name \in Programs : ViewRecorded(name)
    \/ \E req \in BagToSet(net), r \in ProgramResponses : ProgramSettleRecorded(req, r)
    \/ \E row \in Range(programCandidatesTableBody) : ClickDeleteProgramCandidate(row)
    \/ \E req \in BagToSet(net), r \in DeleteResponses :
          DeleteCandidateSettleRecorded(req, r)
    \/ \E name \in Programs, confirmed \in BOOLEAN : ClickDeleteProgram(name, confirmed)
    \/ \E req \in BagToSet(net), r \in DeleteResponses :
          DeleteProgramSettleRecorded(req, r)
    \/ ConfirmDelete
    \/ DismissModal

\* ------------------------------------------------------ all-candidates page
CandidatesInit ==
    /\ candidatesLoading = TRUE
    /\ candidatesContent = FALSE
    /\ noCandidatesMessage = FALSE
    /\ candidatesTableBody = <<>>

\* The .then(data => ...) and .catch of loadCandidatesData.
CandidatesSettle(req, r) ==
    /\ page = "candidates"
    /\ req \in InFlight("candidates")
    /\ r \in CandidatesResponses
    /\ net' = Settled(req)
    /\ candidatesLoading' = FALSE
    /\ candidatesContent' = TRUE
    /\ IF r.kind = "ok" /\ Len(r.rows) # 0
         THEN /\ noCandidatesMessage' = FALSE
              /\ candidatesTableBody' = r.rows
         ELSE /\ noCandidatesMessage' = TRUE
              /\ UNCHANGED candidatesTableBody
    /\ UNCHANGED <<page, uploadVars, dashboardVars, historyVars, timers, alerts, clicks, polls, emailVars, programsVars,
                   modalVars>>

\* A delete-candidate button of the all-candidates table is clicked.
ClickDeleteCandidate(row) ==
    /\ page = "candidates"
    /\ clicks < MaxClicks
    /\ candidatesContent /\ ~modalShown
    /\ row \in Range(candidatesTableBody)
    /\ clicks' = clicks + 1
    /\ ShowModal(row)
    /\ UNCHANGED <<page, uploadVars, dashboardVars, historyVars, net, timers, alerts, polls, emailVars, programsVars,
                   candidatesVars>>

\* The requests deleteCandidate (all-candidates page) sends after its
\* response: loadCandidatesData() on success.
AllCandidatesReloads(req, r) ==
    IF r.kind = "ok" /\ r.success THEN SetToBag({CandidatesRequest}) ELSE EmptyBag

\* deleteCandidate (all-candidates page) after its response, without the alert.
AllCandidatesDeleteEffect(req, r) ==
    /\ page = "candidates"
    /\ req \in InFlight("deleteCandidate")
    /\ r \in DeleteResponses
    /\ net' = Settled(req) (+) AllCandidatesReloads(req, r)
    /\ UNCHANGED <<page, uploadVars, dashboardVars, historyVars, timers, clicks, polls, emailVars, programsVars,
                   candidatesVars, modalVars>>

AllCandidatesDeleteSettle(req, r) ==
    /\ AllCandidatesDeleteEffect(req, r)
    /\ alerts' = DeleteCandidateAlerts(r)

CandidatesNext ==
    \/ \E req \in BagToSet(net), r \in CandidatesResponses : CandidatesSettle(req, r)
    \/ \E row \in Range(candidatesTableBody) : ClickDeleteCandidate(row)
    \/ \E req \in BagToSet(net), r \in DeleteResponses : AllCandidatesDeleteSettle(req, r)

\* ----------------------------------------------------------- dashboard page
ChartHandles == {"genderChart", "pwdChart", "raceChart", "programChart", "institutionChart"}

\* The page as its template renders it, before any script has run.
DashboardInit ==
    /\ ticks = 0
    /\ refreshInterval = (page = "dashboard")
    /\ dashboardLoading = TRUE
    /\ dashboardContent = FALSE
    /\ noDataMessage = FALSE
    /\ totalCount = 0
    /\ totalProgress = {"progress-bar"}
    /\ femaleCard = {"card", "h-100"}
    /\ femaleProgress = {"progress-bar"}
    /\ pwdCard = {"card", "h-100"}
    /\ pwdProgress = {"progress-bar"}
    /\ raceTargets = ""
    /\ charts = {}
    /\ chartsConstructed = 0
    /\ chartUpdates = 0

\* The class names the female card and its progress bar are assigned.
FemaleCardClassAdded(data) ==
    femaleCard \cup
      {CASE data.female_percent >= FemaleGood -> "card-status-good"
         [] data.female_percent >= FemaleWarning -> "card-status-warning"
         [] OTHER -> "card-status-danger"}

FemaleCardClass(data) ==
    CASE data.female_percent >= FemaleGood -> {"card", "h-100", "card-status-good"}
      [] data.female_percent >= FemaleWarning -> {"card", "h-100", "card-status-warning"}
      [] OTHER -> {"card", "h-100", "card-status-danger"}

FemaleProgressClass(data) ==
    CASE data.female_percent >= FemaleGood ->
           {"progress-bar", "progress-bar-striped", "bg-success"}
      [] data.female_percent >= FemaleWarning ->
           {"progress-bar", "progress-bar-striped", "bg-warning"}
      [] OTHER -> {"progress-bar", "progress-bar-striped", "bg-danger"}

PwdCardClass(data) ==
    CASE data.pwd_percent >= PwdGood -> {"card", "h-100", "card-status-good"}
      [] data.pwd_percent >= PwdWarning -> {"card", "h-100", "card-status-warning"}
      [] OTHER -> {"card", "h-100", "card-status-danger"}

PwdProgressClass(data) ==
    CASE data.pwd_percent >= PwdGood ->
           {"progress-bar", "progress-bar-striped", "bg-success"}
      [] data.pwd_percent >= PwdWarning ->
           {"progress-bar", "progress-bar-striped", "bg-warning"}
      [] OTHER -> {"progress-bar", "progress-bar-striped", "bg-danger"}

\* updateMetricsCards(data), updateRaceTargets(data) included.
UpdateMetricsCards(data) ==
    /\ totalCount' = data.total_candidates
    /\ totalProgress' = totalProgress \cup
           {IF data.total_percent >= TotalDone THEN "bg-success" ELSE "bg-primary"}
    /\ femaleCard' = FemaleCardClass(data)
    /\ femaleProgress' = FemaleProgressClass(data)
    /\ pwdCard' = PwdCardClass(data)
    /\ pwdProgress' = PwdProgressClass(data)
    /\ raceTargets' = IF data.race_gender THEN "cards"
                                          ELSE "No race-specific data available."

\* updateCharts(data): a held gender, PWD, program or institution chart is
\* updated and a missing one constructed; the race chart is destroyed and
\* constructed anew.
UpdateCharts(data) ==
    /\ charts' = ChartHandles
    /\ chartsConstructed' = chartsConstructed + Cardinality(ChartHandles \ charts)
                              + (IF "raceChart" \in charts THEN 1 ELSE 0)
    /\ chartUpdates' = chartUpdates + Cardinality(charts \ {"raceChart"})

\* Whether loadDashboardData takes the payload as empty.
IsEmptyNever(data) == FALSE
IsEmpty(data) == data.total_candidates = 0

\* The .then(data => ...) and .catch of loadDashboardData.
MetricsSettle(req, r) ==
    /\ page = "dashboard"
    /\ req \in InFlight("metrics")
    /\ r \in MetricsResponses
    /\ net' = Settled(req)
    /\ dashboardLoading' = FALSE
    /\ dashboardContent' = TRUE
    /\ IF r.kind = "ok" /\ ~IsEmpty(r)
         THEN /\ noDataMessage' = FALSE
              /\ UpdateMetricsCards(r)
              /\ UpdateCharts(r)
         ELSE /\ noDataMessage' = TRUE
              /\ UNCHANGED <<cardVars, chartVars>>
    /\ UNCHANGED <<page, uploadVars, timers, alerts, clicks, polls, emailVars, programsVars,
                   candidatesVars, modalVars, historyVars, ticks, refreshInterval>>

\* The request a tick of the refresh interval sends.
TickSendsUnlessInFlight == IF InFlight("metrics") = {} THEN Send(MetricsRequest) ELSE net
TickSends == Send(MetricsRequest)

\* The interval set at page load ticks (every 30000 ms): loadDashboardData
\* up to its fetch().
RefreshTick ==
    /\ page = "dashboard"
    /\ refreshInterval
    /\ ticks < MaxTicks
    /\ ticks' = ticks + 1
    /\ net' = TickSends
    /\ UNCHANGED <<page, uploadVars, timers, alerts, clicks, polls, emailVars, programsVars,
                   candidatesVars, modalVars, historyVars, refreshInterval,
                   dashboardLoading,
                   dashboardContent, noDataMessage, cardVars, chartVars>>

DashboardNext ==
    \/ \E req \in BagToSet(net), r \in MetricsResponses : MetricsSettle(req, r)
    \/ RefreshTick

\* -------------------------------------------------------- program upload
\* Text is a sequence of one-character strings.
AsciiLetters == {"a", "c", "l", "s", "t", "v", "x", "C", "L", "S", "V", "X", "Z"}
Digits == {"7"}
\* What \s matches and trim() strips.
Whitespace == {" "}

\* Values the user can leave in the program-name field:
\* "", " ", "Z7", " a_ ", "a 7", "a-7", "é".
ProgramNameValues ==
    {<<>>, <<" ">>, <<"Z", "7">>, <<" ", "a", "_", " ">>, <<"a", " ", "7">>,
     <<"a", "-", "7">>, <<"é">>}

\* Names of the file the user can select:
\* a.csv, a.XLSX, a.csv.txt, a.txt, csv, XLSX, a., .xlsx.
FileNames ==
    {<<"a", ".", "c", "s", "v">>, <<"a", ".", "X", "L", "S", "X">>,
     <<"a", ".", "c", "s", "v", ".", "t", "x", "t">>, <<"a", ".", "t", "x", "t">>,
     <<"c", "s", "v">>, <<"X", "L", "S", "X">>, <<"a", ".">>,
     <<".", "x", "l", "s", "x">>}

\* files: empty, or the one file selected.
FileLists == {<<>>} \cup {<<name>> : name \in FileNames}

NoFileChosen == <<"No file chosen">>

\* String.prototype.trim
RECURSIVE Trim(_)
Trim(s) ==
    IF s = <<>> THEN s
    ELSE IF Head(s) \in Whitespace THEN Trim(Tail(s))
    ELSE IF s[Len(s)] \in Whitespace THEN Trim(SubSeq(s, 1, Len(s) - 1))
    ELSE s

\* /^[a-zA-Z0-9_\s]+$/.test(s)
NamePattern(s) ==
    /\ Len(s) >= 1
    /\ \A i \in DOMAIN s : s[i] \in AsciiLetters \cup Digits \cup {"_"} \cup Whitespace

\* s.split('.')
RECURSIVE Split(_)
Split(s) ==
    IF \E i \in DOMAIN s : s[i] = "."
      THEN LET i == CHOOSE i \in DOMAIN s :
                       s[i] = "." /\ \A j \in 1..(i - 1) : s[j] # "."
           IN  <<SubSeq(s, 1, i - 1)>> \o Split(SubSeq(s, i + 1, Len(s)))
      ELSE <<s>>

\* Array.prototype.pop: the last element.
Pop(parts) == parts[Len(parts)]

LowerOf == [c \in {"C", "L", "S", "V", "X", "Z"} |->
              CASE c = "C" -> "c" [] c = "L" -> "l" [] c = "S" -> "s"
                [] c = "V" -> "v" [] c = "X" -> "x" [] c = "Z" -> "z"]

\* String.prototype.toLowerCase
ToLowerCase(s) == [i \in DOMAIN s |-> IF s[i] \in DOMAIN LowerOf THEN LowerOf[s[i]] ELSE s[i]]

\* fileName.split('.').pop().toLowerCase()
FileExt(fileName) == ToLowerCase(Pop(Split(fileName)))

\* validateForm's verdict on the program name.
NameValid(value) == Trim(value) # <<>> /\ NamePattern(Trim(value))

\* validateForm's verdict on the file input.
FileValid(files) ==
    /\ Len(files) # 0
    /\ FileExt(files[1]) \in {<<"c", "s", "v">>, <<"x", "l", "s", "x">>}

\* The form as its template renders it.
UploadInit ==
    /\ programNameValue = <<>>
    /\ programNameInvalid = FALSE
    /\ programFiles = <<>>
    /\ programFileInvalid = FALSE
    /\ fileLabel = <<>>
    /\ lastSubmit = "none"
    /\ uploadButtonDisabled = FALSE
    /\ uploadProgressShown = FALSE
    /\ progressBarWidth = 0
    /\ progress = 0
    /\ uploadInterval = FALSE
    /\ uploadTicks = 0

UploadFrame ==
    UNCHANGED <<page, net, timers, alerts, clicks, polls, emailVars, programsVars,
                candidatesVars, modalVars, dashboardVars, historyVars>>

\* The user edits the program name: the 'input' listener.
InputProgramName(value) ==
    /\ page = "upload"
    /\ value # programNameValue
    /\ programNameValue' = value
    /\ programNameInvalid' = FALSE
    /\ UNCHANGED <<programFiles, programFileInvalid, fileLabel, lastSubmit,
                   simulationVars>>
    /\ UploadFrame

\* The user selects a file or clears the selection: the 'change' listener.
ChangeProgramFile(files) ==
    /\ page = "upload"
    /\ files # programFiles
    /\ programFiles' = files
    /\ programFileInvalid' = FALSE
    /\ fileLabel' = IF Len(files) # 0 THEN files[1] ELSE NoFileChosen
    /\ UNCHANGED <<programNameValue, programNameInvalid, lastSubmit, simulationVars>>
    /\ UploadFrame

\* validateForm(): marks the fields; its return value is
\* NameValid(programNameValue) /\ FileValid(programFiles).
ValidateForm ==
    /\ programNameInvalid' = ~NameValid(programNameValue)
    /\ programFileInvalid' = ~FileValid(programFiles)

\* The form is submitted, by its button or from the name field; a disabled
\* submit button submits nothing.
SubmitProgramUpload ==
    /\ page = "upload"
    /\ ~uploadButtonDisabled
    /\ ValidateForm
    /\ IF ~(NameValid(programNameValue) /\ FileValid(programFiles))
         THEN /\ lastSubmit' = "prevented"
              /\ UNCHANGED simulationVars
         ELSE /\ lastSubmit' = "submitted"
              /\ uploadButtonDisabled' = TRUE
              /\ uploadProgressShown' = TRUE
              /\ progressBarWidth' = 0
              /\ progress' = 0
              /\ uploadInterval' = TRUE
              /\ uploadTicks' = 0
    /\ UNCHANGED <<programNameValue, programFiles, fileLabel>>
    /\ UploadFrame

Min(a, b) == IF a <= b THEN a ELSE b

\* Whether the callback clears its interval.
ClearsAbove(p) == p > ProgressCap
Clears(p) == p >= ProgressCap

\* The interval's callback, every 100 ms.
ProgressTick ==
    /\ page = "upload"
    /\ uploadInterval
    /\ progress' = progress + ProgressStep
    /\ progressBarWidth' = Min(progress', ProgressCap)
    /\ uploadInterval' = ~Clears(progress')
    /\ uploadTicks' = uploadTicks + 1
    /\ UNCHANGED <<fieldVars, lastSubmit, uploadButtonDisabled, uploadProgressShown>>
    /\ UploadFrame

UploadNext ==
    \/ \E value \in ProgramNameValues : InputProgramName(value)
    \/ \E files \in FileLists : ChangeProgramFile(files)
    \/ SubmitProgramUpload
    \/ ProgressTick

\* ------------------------------------------------------------------- spec
\* DOMContentLoaded: the programs page and the all-candidates page start
\* with their first load in flight.
Init ==
    /\ page \in Pages
    /\ net = CASE page = "programs" -> SetToBag({ProgramsRequest})
               [] page = "candidates" -> SetToBag({CandidatesRequest})
               [] page = "dashboard" -> SetToBag({MetricsRequest})
               [] OTHER -> EmptyBag
    /\ timers = EmptyBag
    /\ alerts = NoAlerts
    /\ clicks = 0
    /\ polls = 0
    /\ EmailInit
    /\ ProgramsInit
    /\ CandidatesInit
    /\ ModalInit
    /\ DashboardInit
    /\ HistoryInit
    /\ UploadInit

Next ==
    \/ EmailNext
    \/ ProgramsNext
    \/ CandidatesNext
    \/ ConfirmDelete
    \/ DismissModal
    \/ DashboardNext
    \/ UploadNext

Spec == Init /\ [][Next]_vars

\* displayProgramsTable applied to any payload, whatever was rendered before.
RenderPrograms(programs) ==
    /\ page = "programs"
    /\ DisplayProgramsTable(programs)
    /\ UNCHANGED <<page, uploadVars, dashboardVars, historyVars, net, timers, alerts, clicks, polls, emailVars,
                   programsLoading, programsContent, noProgramsMessage,
                   programDetailsSection, selectedProgramName,
                   programCandidatesTableBody, candidatesVars, modalVars>>

TargetsInit == Init /\ page = "programs"

TargetsNext == \E programs \in ProgramLists : RenderPrograms(programs)

TargetsSpec == TargetsInit /\ [][TargetsNext]_vars

\* The programs page alone, with its history recorded.
ProgramsHistoryInit == Init /\ page = "programs"

ProgramsHistorySpec == ProgramsHistoryInit /\ [][ProgramsHistoryNext]_vars

\* The dashboard page alone; the browser fires the interval for as long as
\* the page is loaded.
DashboardPageInit == Init /\ page = "dashboard"

DashboardSpec == DashboardPageInit /\ [][DashboardNext]_vars /\ WF_vars(RefreshTick)

\* The program-upload form alone; the browser fires the interval until it is
\* cleared.
UploadPageInit == Init /\ page = "upload"

UploadSpec == UploadPageInit /\ [][UploadNext]_vars /\ WF_vars(ProgressTick)

\* ------------------------------------------------------------------ claims
\* A response to a request in flight is handled.
Deliver(req, r) ==
    \/ UploadSettle(req, r)
    \/ StartSettle(req, r)
    \/ PollSettle(req, r)
    \/ ProgramsSettle(req, r)
    \/ ProgramSettle(req, r)
    \/ DeleteCandidateSettle(req, r)
    \/ DeleteProgramSettle(req, r)
    \/ CandidatesSettle(req, r)
    \/ AllCandidatesDeleteSettle(req, r)
    \/ MetricsSettle(req, r)

\* The same, leaving the alert text open.
Effect(req, r) ==
    \/ UploadEffect(req, r)
    \/ StartEffect(req, r)
    \/ PollEffect(req, r)
    \/ ProgramsSettle(req, r)
    \/ ProgramEffect(req, r)
    \/ DeleteCandidateEffect(req, r)
    \/ DeleteProgramEffect(req, r)
    \/ CandidatesSettle(req, r)
    \/ AllCandidatesDeleteEffect(req, r)
    \/ MetricsSettle(req, r)

HttpErrs == {HttpErr(t) : t \in ErrTexts \cup {NoText}}

\* Requests of kind api that the step adds to the ones in flight.
Added(api) == {q \in BagToSet(net') : q.api = api /\ CopiesIn(q, net') > CopiesIn(q, net)}

One(x) == SetToBag({x})

\* C1: a poll response with finished = false schedules exactly one further
\* poll of the same job after 1500 ms and a poll that throws (fetch or JSON
\* parsing) exactly one after 3000 ms, neither sending anything at once; a
\* pending poll is never cancelled: a timer only leaves by firing, and firing
\* sends the status request of its job.
C1_PollReschedulesOnce ==
    /\ [][\A req \in InFlight("status"), r \in StatusResponses :
            PollSettle(req, r) =>
              /\ (r.kind = "ok" /\ ~r.finished) =>
                    /\ timers' = timers (+) One(PollTimer(req.job, 1500))
                    /\ net' = Settled(req)
              /\ r \in TransportFailures =>
                    /\ timers' = timers (+) One(PollTimer(req.job, 3000))
                    /\ net' = Settled(req)]_vars
    /\ [][BagCardinality(timers') < BagCardinality(timers) =>
            \E t \in BagToSet(timers) :
              /\ timers' = timers (-) One(t)
              /\ net' = net (+) One(StatusRequest(t.job))]_vars

\* A poll fired from a timer has failed again and its retry is pending.
C1_Witness ==
    /\ polls >= 1
    /\ InFlight("status") = {}
    /\ \E j \in JobIds : timers = One(PollTimer(j, 3000))

\* C2: for every request, a non-OK HTTP status has the follow-up and the UI
\* state that some transport failure of that request has.
C2_HttpErrorLikeTransportFailure ==
    [][\A req \in BagToSet(net), r \in HttpErrs :
         Deliver(req, r) =>
           \E f \in TransportFailures :
             /\ Effect(req, f)
             /\ alerts'.n = alerts.n + (IF req.api \in {"status", "programs", "candidates", "metrics"} THEN 0 ELSE 1)]_vars

\* The controls the request's action disabled are enabled.
ControlsEnabled(req) ==
    CASE req.api = "upload" -> ~uploadBtnDisabled
      [] req.api \in {"start", "status"} -> ~generateBtnDisabled /\ ~previewOnlyBtnDisabled
      [] OTHER -> TRUE

IsFailure(r) == r.kind # "ok"

\* C3: after a failed upload, start, status or delete request has settled,
\* the controls its action disabled are enabled again, except after a
\* transport failure of a status request.
C3_FailureLeavesControlsEnabled ==
    [][\A req \in BagToSet(net), r \in HttpErrs \cup TransportFailures \cup DeleteResponses :
         (/\ Deliver(req, r)
          /\ req.api \in {"upload", "start", "status", "deleteCandidate", "deleteProgram"}
          /\ (IsFailure(r) \/ (req.api \in {"deleteCandidate", "deleteProgram"} /\ ~r.success))
          /\ ~(req.api = "status" /\ r \in TransportFailures))
         => ControlsEnabled(req)']_vars

\* C4: a poll response with finished = true schedules no timer and sends
\* nothing, leaves no status request or timer of that job behind, enables
\* the generate and preview-only buttons, and alerts exactly once.
C4_FinishedStopsPolling ==
    [][\A req \in InFlight("status"), r \in StatusResponses :
         (PollSettle(req, r) /\ r.kind = "ok" /\ r.finished) =>
           /\ timers' = timers
           /\ net' = Settled(req)
           /\ \A q \in InFlight("status")' : q.job # req.job
           /\ \A t \in BagToSet(timers') : t.job # req.job
           /\ ~generateBtnDisabled' /\ ~previewOnlyBtnDisabled'
           /\ alerts' = Alert(alerts, JobFinishedAlert)]_vars

\* A job has finished: the user was told and can start again.
C4_Witness ==
    /\ alerts.last = JobFinishedAlert
    /\ statusCardShown
    /\ ~generateBtnDisabled /\ ~previewOnlyBtnDisabled
    /\ net = EmptyBag /\ timers = EmptyBag

StartButtons == <<generateBtnDisabled, previewOnlyBtnDisabled>>

\* C5: the held job id only ever comes from a successful upload; a start
\* request is sent only while a job id is held and carries it; a start click
\* without a job id only alerts; a status request is sent only by a
\* successful start response, for the job id of that response, or by a poll
\* timer, for its job, and a poll timer is only set by a status response.
C5_WorkflowOrder ==
    /\ [][currentJobId' # currentJobId =>
            \E req \in InFlight("upload"), r \in UploadResponses :
              r.kind = "ok" /\ UploadSettle(req, r) /\ currentJobId' = r.job_id]_vars
    /\ [][\A q \in Added("start") :
            /\ currentJobId # NoJob /\ q.job = currentJobId
            /\ net' = net (+) One(q)]_vars
    /\ [][\A previewOnly \in BOOLEAN :
            (ClickStart(previewOnly) /\ currentJobId = NoJob) =>
              /\ net' = net
              /\ StartButtons' = StartButtons
              /\ alerts' = Alert(alerts, "No job to start. Upload CSV first.")]_vars
    /\ [][\A req \in InFlight("start"), r \in StartResponses :
            (StartSettle(req, r) /\ r.kind = "ok") =>
              net' = Settled(req) (+) One(StatusRequest(r.job_id))]_vars
    /\ [][\A q \in Added("status") :
            \/ \E req \in InFlight("start"), r \in StartResponses :
                 r.kind = "ok" /\ StartSettle(req, r)
            \/ \E t \in BagToSet(timers) : PollTimerFires(t) /\ q.job = t.job]_vars
    /\ [][BagCardinality(timers') > BagCardinality(timers) =>
            \E req \in InFlight("status"), r \in StatusResponses : PollSettle(req, r)]_vars

\* Polling runs for the job id of the start response, which is not the one held.
C5_Witness ==
    /\ currentJobId # NoJob
    /\ generateBtnDisabled /\ previewOnlyBtnDisabled
    /\ \E q \in InFlight("status") : q.job # currentJobId /\ net = One(q)
    /\ polls = 0

\* C6: clicking a candidate's delete button shows the modal for that
\* candidate's id and program and sends nothing; the confirm button keeps
\* them while the modal is shown; confirming sends exactly one delete request
\* with that id and program; a success response to it sends exactly one
\* re-fetch of the candidate list (programs page: one of the program's
\* candidates and one of the program list).
C6_DeleteCandidateRequests ==
    /\ [][\A row \in Range(programCandidatesTableBody) \cup Range(candidatesTableBody) :
            (ClickDeleteProgramCandidate(row) \/ ClickDeleteCandidate(row)) =>
              /\ modalShown'
              /\ confirmDeleteButton'.id = row.id
              /\ confirmDeleteButton'.program = row.program
              /\ net' = net]_vars
    /\ [][(modalShown /\ modalShown') => confirmDeleteButton' = confirmDeleteButton]_vars
    /\ [][ConfirmDelete =>
            net' = net (+) One(DeleteCandidateRequest(confirmDeleteButton.id,
                                                      confirmDeleteButton.program))]_vars
    /\ [][\A req \in InFlight("deleteCandidate"), r \in DeleteResponses :
            (Deliver(req, r) /\ r.kind = "ok" /\ r.success) =>
              net' = Settled(req) (+)
                     (IF page = "programs"
                        THEN One(ProgramRequest(req.program)) (+) One(ProgramsRequest)
                        ELSE One(CandidatesRequest))]_vars

\* On the programs page a candidate of the selected program was deleted and
\* the two re-fetches are in flight.
C6_Witness ==
    /\ page = "programs"
    /\ ~modalShown
    /\ confirmDeleteButton.program = selectedProgramName
    /\ net = One(ProgramRequest(selectedProgramName)) (+) One(ProgramsRequest)

DisplayVars == <<programsTableBody, programCandidatesTableBody, candidatesTableBody,
                 programDetailsSection, selectedProgramName>>

\* C7: a failed candidate or program delete alerts once (with "Error: " and
\* the payload's error text when the response is a 200 with success false),
\* sends nothing, and leaves the tables and the program-detail panel as they are.
C7_DeleteFailureAlertsOnly ==
    [][\A req \in InFlight("deleteCandidate") \cup InFlight("deleteProgram"),
          r \in DeleteResponses :
         (Deliver(req, r) /\ ~(r.kind = "ok" /\ r.success)) =>
           /\ alerts'.n = alerts.n + 1
           /\ r.kind = "ok" => alerts' = Alert(alerts, "Error: " \o r.text)
           /\ net' = Settled(req)
           /\ DisplayVars' = DisplayVars]_vars

\* A delete was refused by the backend and nothing is left in flight.
C7_Witness ==
    /\ alerts.last = "Error: bad request"
    /\ net = EmptyBag
    /\ ~modalShown

\* C8: a candidate delete request is sent only by a step that closes the
\* shown modal, and is the confirmed one; a program delete request is sent
\* only by a delete-program click whose dialog was confirmed; dismissing the
\* modal or declining the dialog sends nothing; handling the response takes
\* the request out of flight and sends no further delete.
C8_DeleteStateMachine ==
    /\ [][\A q \in Added("deleteCandidate") :
            /\ modalShown /\ ~modalShown'
            /\ ConfirmDelete
            /\ net' = net (+) One(q)]_vars
    /\ [][\A q \in Added("deleteProgram") :
            /\ ClickDeleteProgram(q.program, TRUE)
            /\ net' = net (+) One(q)]_vars
    /\ [][DismissModal => (net' = net /\ ~modalShown')]_vars
    /\ [][\A name \in Programs : ClickDeleteProgram(name, FALSE) => net' = net]_vars
    /\ [][\A req \in InFlight("deleteCandidate") \cup InFlight("deleteProgram"),
            r \in DeleteResponses :
            Deliver(req, r) =>
              /\ CopiesIn(req, net') = CopiesIn(req, net) - 1
              /\ Added("deleteCandidate") = {} /\ Added("deleteProgram") = {}]_vars

\* A confirmed candidate delete is being submitted.
C8_Witness ==
    /\ ~modalShown
    /\ net = One(DeleteCandidateRequest(confirmDeleteButton.id, confirmDeleteButton.program))

\* C9: a success response to the deletion of program P alerts the server's
\* message, sends one re-fetch of the program list, and hides the
\* program-detail panel iff the selected program name is P.
C9_DeleteProgramSuccess ==
    [][\A req \in InFlight("deleteProgram"), r \in DeleteResponses :
         (DeleteProgramSettle(req, r) /\ r.kind = "ok" /\ r.success) =>
           /\ alerts' = Alert(alerts, r.text)
           /\ net' = Settled(req) (+) One(ProgramsRequest)
           /\ programDetailsSection' =
                (IF selectedProgramName = req.program THEN FALSE ELSE programDetailsSection)
           /\ selectedProgramName' = selectedProgramName]_vars

\* Another program than the one shown was deleted: the panel is still shown.
C9_Witness ==
    /\ alerts.last = "program deleted"
    /\ programDetailsSection
    /\ net = One(ProgramsRequest)
    /\ clicks = 2

\* C10: a re-fetch that completes successfully leaves the affected table
\* showing exactly the rows of its payload, the empty payload included.  On
\* the programs and all-candidates pages every load that settles with the
\* content already shown is a re-fetch after a successful delete.
C10_RefetchRepopulatesTable ==
    /\ [][\A req \in InFlight("programs"), r \in ProgramsResponses :
            (ProgramsSettle(req, r) /\ r.kind = "ok" /\ programsContent) =>
              programsTableBody' = r.rows]_vars
    /\ [][\A req \in InFlight("candidates"), r \in CandidatesResponses :
            (CandidatesSettle(req, r) /\ r.kind = "ok" /\ candidatesContent) =>
              candidatesTableBody' = r.rows]_vars
    /\ [][\A req \in InFlight("program"), r \in ProgramResponses :
            (ProgramSettle(req, r) /\ r.kind = "ok") =>
              programCandidatesTableBody' =
                  [i \in DOMAIN r.rows |-> Row(r.rows[i], req.program)]]_vars

\* The requests a user action sends (page load apart): the failures of these
\* are the ones no code retries.
UserApis == {"upload", "start", "programs", "program", "candidates",
             "deleteCandidate", "deleteProgram", "metrics"}

FailureResponses == HttpErrs \cup TransportFailures \cup DeleteResponses

\* The response says the request failed.
Failed(req, r) ==
    \/ IsFailure(r)
    \/ req.api \in {"deleteCandidate", "deleteProgram"} /\ ~r.success

\* C11: the page load and every user action that goes through (an upload
\* with a file chosen, a start with a job held, a view, a confirmed delete)
\* send exactly one request, to the action's endpoint; no user action sends
\* more than one; a step that takes such a request out of flight by handling
\* a failed response sends nothing and sets no timer; a request only leaves flight by its response being
\* handled.
C11_OneAttemptPerAction ==
    /\ (page = "programs" => net = One(ProgramsRequest))
    /\ (page = "candidates" => net = One(CandidatesRequest))
    /\ (page = "dashboard" => net = One(MetricsRequest))
    /\ [][(SubmitUpload /\ fileChosen) => net' = net (+) One(UploadRequest)]_vars
    /\ [][\A previewOnly \in BOOLEAN :
            (ClickStart(previewOnly) /\ HasJob) =>
              \E q \in Added("start") : q.job = currentJobId /\ net' = net (+) One(q)]_vars
    /\ [][\A name \in Programs :
            /\ ClickViewProgram(name) => net' = net (+) One(ProgramRequest(name))
            /\ ClickDeleteProgram(name, TRUE) =>
                  net' = net (+) One(DeleteProgramRequest(name))]_vars
    /\ [][ConfirmDelete =>
            \E q \in Added("deleteCandidate") : net' = net (+) One(q)]_vars
    /\ [][(clicks' # clicks \/ ConfirmDelete) =>
            BagCardinality(net') <= BagCardinality(net) + 1]_vars
    /\ [][\A req \in BagToSet(net) :
            (CopiesIn(req, net') < CopiesIn(req, net) /\ req.api \in UserApis) =>
              \A r \in FailureResponses :
                (Failed(req, r) /\ Deliver(req, r)) =>
                  (net' = Settled(req) /\ timers' = timers)]_vars
    /\ [][\A q \in BagToSet(net) :
            CopiesIn(q, net') < CopiesIn(q, net) =>
              /\ CopiesIn(q, net') = CopiesIn(q, net) - 1
              /\ CASE q.api = "upload" -> \E r \in UploadResponses : UploadEffect(q, r)
                   [] q.api = "start" -> \E r \in StartResponses : StartEffect(q, r)
                   [] q.api = "status" -> \E r \in StatusResponses : PollEffect(q, r)
                   [] q.api = "programs" -> \E r \in ProgramsResponses : ProgramsSettle(q, r)
                   [] q.api = "program" -> \E r \in ProgramResponses : ProgramEffect(q, r)
                   [] q.api = "candidates" ->
                        \E r \in CandidatesResponses : CandidatesSettle(q, r)
                   [] q.api = "metrics" -> \E r \in MetricsResponses : MetricsSettle(q, r)
                   [] OTHER -> \E r \in DeleteResponses : Effect(q, r)]_vars

\* A view request has failed: the user was told, and nothing is in flight
\* or scheduled.
C11_Witness ==
    /\ page = "programs"
    /\ clicks = 1
    /\ alerts.last = "Error loading candidates for Alpha. Please try again."
    /\ net = EmptyBag /\ timers = EmptyBag

Abs(x) == IF x < 0 THEN -x ELSE x

\* C12: after every successful poll response the progress shown is 0 when
\* the payload's total is 0 or missing, and otherwise an integer nearest to
\* 100 * processed / total (a missing processed counting as 0).
C12_ProgressPercent ==
    [][\A req \in InFlight("status"), r \in StatusResponses :
         (PollSettle(req, r) /\ r.kind = "ok") =>
           /\ r.total \in {0, Absent} => overallProgress' = 0
           /\ r.total \notin {0, Absent} =>
                 LET processed == IF r.processed = Absent THEN 0 ELSE r.processed
                 IN  2 * Abs(100 * processed - overallProgress' * r.total) <= r.total]_vars

\* Two of three processed: 66.67 is shown as 67.
C12_Witness ==
    /\ page = "emails"
    /\ statusCardShown
    /\ overallProgress = 67

\* C13: in every rendering of the programs table, whatever was rendered
\* before, each row's female indicator reads "Met" iff the row's
\* female_percent is at least 70 and "Not Met" otherwise, and its PWD
\* indicator reads "Met" iff its pwd_percent is at least 5 and "Not Met"
\* otherwise (percentages in tenths: 700 and 50).
C13_TargetIndicators ==
    /\ Len(programsTargets) = Len(programsTableBody)
    /\ \A i \in DOMAIN programsTargets :
          LET cells == programsTargets[i]
          IN  /\ cells.female = (IF cells.female_percent >= 700 THEN "Met" ELSE "Not Met")
              /\ cells.pwd = (IF cells.pwd_percent >= 50 THEN "Met" ELSE "Not Met")

\* One program is exactly at both targets, the other a tenth below both.
C13_Witness ==
    /\ Len(programsTargets) = 2
    /\ programsTargets[1] =
          [female_percent |-> 700, pwd_percent |-> 50, female |-> "Met", pwd |-> "Met"]
    /\ programsTargets[2] =
          [female_percent |-> 699, pwd_percent |-> 49, female |-> "Not Met", pwd |-> "Not Met"]

\* C14: handling a metrics response whose total_candidates is 0 shows the
\* no-data message and leaves every chart handle, the counts of charts
\* constructed and updated, and every metrics card as they were.
C14_EmptyMetricsDrawNothing ==
    [][\A req \in InFlight("metrics"), r \in MetricsResponses :
         (MetricsSettle(req, r) /\ r.kind = "ok" /\ r.total_candidates = 0) =>
           /\ noDataMessage'
           /\ charts' = charts
           /\ chartsConstructed' = chartsConstructed
           /\ chartUpdates' = chartUpdates
           /\ cardVars' = cardVars]_vars

\* The no-data message is shown over cards and charts of an earlier refresh.
C14_Witness ==
    /\ page = "dashboard"
    /\ noDataMessage
    /\ charts = ChartHandles
    /\ totalCount = 10
    /\ ticks >= 1

CardStatuses == {"card-status-good", "card-status-warning", "card-status-danger"}
BarStatuses == {"bg-success", "bg-warning", "bg-danger", "bg-primary"}

\* C16: after a metrics response that updates the cards, the female card
\* carries exactly one status class and its progress bar exactly one colour
\* class, those of the response's female_percent: good / bg-success from 65,
\* warning / bg-warning from 60 to below 65, danger / bg-danger below 60
\* (percentages in tenths).
C16_FemaleCardStatus ==
    [][\A req \in InFlight("metrics"), r \in MetricsResponses :
         (MetricsSettle(req, r) /\ r.kind = "ok" /\ r.total_candidates # 0) =>
           /\ femaleCard' \cap CardStatuses =
                 {CASE r.female_percent >= 650 -> "card-status-good"
                    [] r.female_percent >= 600 /\ r.female_percent < 650 ->
                         "card-status-warning"
                    [] OTHER -> "card-status-danger"}
           /\ femaleProgress' \cap BarStatuses =
                 {CASE r.female_percent >= 650 -> "bg-success"
                    [] r.female_percent >= 600 /\ r.female_percent < 650 -> "bg-warning"
                    [] OTHER -> "bg-danger"}]_vars

\* A later refresh has turned the female card to warning.
C16_Witness ==
    /\ page = "dashboard"
    /\ chartUpdates > 0
    /\ "card-status-warning" \in femaleCard
    /\ "bg-warning" \in femaleProgress

\* C17: while the dashboard is loaded its refresh interval stays registered
\* and a tick is always possible; every tick sends exactly one metrics
\* request, whatever is in flight and however earlier requests ended; and
\* every tick up to the last one modelled does happen.
C17_PeriodicRefresh ==
    /\ [](page = "dashboard" => refreshInterval)
    /\ []((page = "dashboard" /\ ticks < MaxTicks) => ENABLED RefreshTick)
    /\ [][ticks' # ticks =>
            (ticks' = ticks + 1 /\ net' = net (+) One(MetricsRequest))]_vars
    /\ <>(ticks = MaxTicks)

\* A tick has sent a request while the one before it is still in flight and
\* the one before that has failed.
C17_Witness ==
    /\ page = "dashboard"
    /\ ticks = 2
    /\ noDataMessage /\ charts = {}
    /\ net = One(MetricsRequest) (+) One(MetricsRequest)

\* C15: a start click with a job held sends one start request that carries
\* the held job id, send = true and preview_only = false for generate and
\* send = false and preview_only = true for preview-only, and
\* filter_decisions as the one-element list of the selected decision when
\* one is selected and not at all otherwise; no other step sends a start
\* request.
C15_StartRequestBody ==
    /\ [][\A previewOnly \in BOOLEAN :
            (ClickStart(previewOnly) /\ currentJobId # NoJob) =>
              \E q \in Added("start") :
                /\ net' = net (+) One(q)
                /\ q.job = currentJobId
                /\ q.send = ~previewOnly
                /\ q.preview_only = previewOnly
                /\ filterDecision # "" => q.filter_decisions = <<filterDecision>>
                /\ filterDecision = "" => q.filter_decisions = <<>>]_vars
    /\ [][\A q \in Added("start") :
            /\ q.send # q.preview_only
            /\ \E previewOnly \in BOOLEAN : ClickStart(previewOnly)]_vars

\* A preview-only start filtered by a decision is in flight.
C15_Witness ==
    /\ \E q \in InFlight("start") :
          /\ q.preview_only /\ ~q.send
          /\ q.filter_decisions = <<"Accepted">>
          /\ q.job = currentJobId
    /\ filterDecision = "Accepted"

\* Start requests in flight, status requests in flight and pending poll timers.
PollChains ==
    BagCardinality(timers)
    + BagCardinality([q \in InFlight("start") \cup InFlight("status") |-> net[q]])

\* C18: at any time at most one start request, status request or poll timer
\* exists in total, and while one does the generate and preview-only buttons
\* are both disabled; the buttons are disabled by the start click itself and
\* only a poll response with finished = true enables them, whatever uploads
\* happen in between.
C18_OnePollChain ==
    /\ [](PollChains <= 1)
    /\ [](PollChains = 1 => (generateBtnDisabled /\ previewOnlyBtnDisabled))
    /\ [][\A previewOnly \in BOOLEAN :
            (ClickStart(previewOnly) /\ currentJobId # NoJob) =>
              (generateBtnDisabled' /\ previewOnlyBtnDisabled')]_vars
    /\ [][((generateBtnDisabled /\ ~generateBtnDisabled')
             \/ (previewOnlyBtnDisabled /\ ~previewOnlyBtnDisabled')) =>
            \E req \in InFlight("status"), r \in StatusResponses :
              r.kind = "ok" /\ r.finished /\ PollSettle(req, r)]_vars

\* A second job was uploaded while the first one is being polled from a timer.
C18_Witness ==
    /\ polls >= 1
    /\ \E q \in InFlight("status") : q.job # currentJobId /\ net = One(q)
    /\ timers = EmptyBag
    /\ clicks = 3

\* C19: once nothing is in flight after the deletion of a program has
\* succeeded (and the user has clicked no view button since), the
\* program-detail panel is not shown for that program.
C19_DeletedProgramNotShown ==
    (deletedProgram # NoProgram /\ net = EmptyBag) =>
       ~(programDetailsSection /\ selectedProgramName = deletedProgram)

\* C20: once a response to the latest view request has been shown and no
\* view request is in flight, a shown program-detail panel names the program
\* of the latest view request and lists that program's candidates.
C20_LatestViewWins ==
    (latestView.done /\ InFlight("program") = {} /\ programDetailsSection) =>
       /\ selectedProgramName = latestView.program
       /\ \A row \in Range(programCandidatesTableBody) : row.program = latestView.program

\* C21: after a metrics response that updates the cards, the total-progress
\* bar carries exactly one of bg-success and bg-primary: bg-success when the
\* response's total_percent is at least 100 and bg-primary otherwise
\* (percentages in tenths), whatever earlier refreshes have drawn.
C21_TotalProgressClass ==
    [][\A req \in InFlight("metrics"), r \in MetricsResponses :
         (MetricsSettle(req, r) /\ r.kind = "ok" /\ r.total_candidates # 0) =>
           totalProgress' \cap {"bg-success", "bg-primary"} =
              {IF r.total_percent >= 1000 THEN "bg-success" ELSE "bg-primary"}]_vars

\* The text after the last dot of a file name that has a dot.
HasExtension(fileName, exts) ==
    \E i \in DOMAIN fileName :
       /\ fileName[i] = "."
       /\ \A j \in (i + 1)..Len(fileName) : fileName[j] # "."
       /\ ToLowerCase(SubSeq(fileName, i + 1, Len(fileName))) \in exts

\* C22: a submit of the program-upload form proceeds (it is not prevented,
\* the upload button is disabled and the progress simulation starts) exactly
\* when the trimmed program name is non-empty and made of letters, digits,
\* underscores and whitespace only and a file is selected whose extension
\* after the last dot is csv or xlsx in any case; otherwise it is prevented,
\* each offending field is marked invalid and the upload button stays
\* enabled.
C22_SubmitIffValid ==
    [][SubmitProgramUpload =>
         LET name == Trim(programNameValue)
             nameOk == /\ name # <<>>
                       /\ \A i \in DOMAIN name :
                             name[i] \in AsciiLetters \cup Digits \cup {"_", " "}
             fileOk == /\ programFiles # <<>>
                       /\ HasExtension(programFiles[1],
                                       {<<"c", "s", "v">>, <<"x", "l", "s", "x">>})
         IN  IF nameOk /\ fileOk
               THEN /\ lastSubmit' = "submitted"
                    /\ uploadButtonDisabled'
                    /\ uploadInterval' /\ progress' = 0
               ELSE /\ lastSubmit' = "prevented"
                    /\ ~nameOk => programNameInvalid'
                    /\ ~fileOk => programFileInvalid'
                    /\ ~uploadButtonDisabled'
                    /\ ~uploadInterval']_vars

\* C23: a submit that passes validation shows the bar at 0% with progress 0
\* and registers the interval; every tick raises progress and the shown
\* width by 5; the width never exceeds 95; the interval is cleared by the
\* tick that brings progress to 95, which is the 19th, and by no other; once
\* cleared no tick can fire; and the simulation of every submission ends.
C23_SimulatedProgress ==
    /\ [][(SubmitProgramUpload /\ lastSubmit' = "submitted") =>
            /\ progressBarWidth' = 0 /\ progress' = 0 /\ uploadTicks' = 0
            /\ uploadProgressShown' /\ uploadInterval']_vars
    /\ [][ProgressTick =>
            /\ progress' = progress + 5
            /\ progressBarWidth' = progressBarWidth + 5
            /\ uploadTicks' = uploadTicks + 1
            /\ uploadInterval' = (progress' # 95)
            /\ (progress' = 95) = (uploadTicks' = 19)]_vars
    /\ [](progressBarWidth <= 95 /\ progressBarWidth = 5 * uploadTicks)
    /\ [](~uploadInterval => ~ENABLED ProgressTick)
    /\ [][~(~uploadInterval /\ uploadInterval' /\ lastSubmit = "submitted")]_vars
    /\ (uploadInterval ~> (~uploadInterval /\ progressBarWidth = 95))

\* The simulation of a submission has ended on its 19th tick, with the bar
\* at 95%.
C23_Witness ==
    /\ page = "upload"
    /\ lastSubmit = "submitted"
    /\ ~uploadInterval
    /\ uploadTicks = 19
    /\ progressBarWidth = 95
    /\ uploadButtonDisabled
====
